---- MODULE Spec2Model ----
(***************************************************************************)
(* Model of the store admin configuration (src/store/admin.py) and of the  *)
(* order_created signal handler (src/core/signals/handlers.py).            *)
(*                                                                         *)
(* The database tables are functions from the primary keys of the rows     *)
(* that exist to the rows.  A QuerySet is the set of primary keys it       *)
(* selects.  The variable `last` records the request that was served last: *)
(* its name, its inputs, the table as it was before it and what it         *)
(* returned or emitted.                                                    *)
(***************************************************************************)
EXTENDS Integers, Sequences, FiniteSets, TLC

VARIABLES products, orders, last, fired, printed, raised

vars == <<products, orders, last, fired, printed, raised>>

----------------------------------------------------------------------------
(* Bounds of the model *)

NProducts == 2
NCollections == 2
NOrders == 2
NCustomers == 2
FirstId == 9
MaxFirings == 4

ProductIds == 1..NProducts
\* collection and customer primary keys run over one and two digit numbers
CollectionIds == FirstId..(FirstId + NCollections - 1)
CustomerIds == FirstId..(FirstId + NCustomers - 1)
OrderIds == 1..NOrders

InvValues == {-1, 0, 9, 10, 11}
Prices == {5, 7}
Titles == {"t"}

None == "None"

----------------------------------------------------------------------------
(* Rows and tables *)

ProductRow == [title : Titles, unit_price : Prices, inventory : InvValues,
               collection : CollectionIds]

\* The tables with primary keys among ids and rows among rows
Tables(ids, rows) == UNION {[s -> rows] : s \in SUBSET ids}

EmptyTable == [pk \in {} |-> None]

\* Model.save() of the row with primary key pk: INSERT or UPDATE
save_row(t, pk, row) ==
    [k \in DOMAIN t \cup {pk} |-> IF k = pk THEN row ELSE t[k]]

\* QuerySet.delete() of the row with primary key pk
delete_row(t, pk) == [k \in DOMAIN t \ {pk} |-> t[k]]

\* QuerySet.filter(inventory__lt=n) over the rows of table t selected by qs
filter_inventory_lt(t, qs, n) == {p \in qs : t[p].inventory < n}

\* update() that forgets the selection and writes every row of the table
update_inventory_all(t, qs, v) ==
    [table |-> [p \in DOMAIN t |-> [t[p] EXCEPT !.inventory = v]],
     rows  |-> Cardinality(DOMAIN t)]

\* QuerySet.update(inventory=v): the new table and the number of rows matched
update_inventory(t, qs, v) ==
    [table |-> [p \in DOMAIN t |->
                   IF p \in qs THEN [t[p] EXCEPT !.inventory = v] ELSE t[p]],
     rows  |-> Cardinality(qs)]

----------------------------------------------------------------------------
(* InventoryFilter *)

FilterThreshold == 10

\* InventoryFilter.lookups
lookups == {<<"<10", "Low">>}

\* queryset() with inventory__lte in place of inventory__lt
InventoryFilter_queryset_lte(value, t, qs) ==
    IF value = "<10"
    THEN [is_none |-> FALSE,
          qs |-> {p \in qs : t[p].inventory <= FilterThreshold}]
    ELSE [is_none |-> TRUE, qs |-> {}]

\* queryset() restricting on any value that is set: if self.value()
InventoryFilter_queryset_any(value, t, qs) ==
    IF value # None
    THEN [is_none |-> FALSE, qs |-> filter_inventory_lt(t, qs, FilterThreshold)]
    ELSE [is_none |-> TRUE, qs |-> {}]

\* InventoryFilter.queryset: a QuerySet, or None when the method falls off
\* its end (is_none)
InventoryFilter_queryset(value, t, qs) ==
    IF value = "<10"
    THEN [is_none |-> FALSE, qs |-> filter_inventory_lt(t, qs, FilterThreshold)]
    ELSE [is_none |-> TRUE, qs |-> {}]

\* The change list keeps the incoming QuerySet when a filter returns None
apply_list_filter(value, t, qs) ==
    LET new_qs == InventoryFilter_queryset(value, t, qs)
    IN  IF new_qs.is_none THEN qs ELSE new_qs.qs

----------------------------------------------------------------------------
(* ProductAdmin *)

StatusThreshold == 10

\* inventory_status with <= in place of <
inventory_status_lte(product) ==
    IF product.inventory <= StatusThreshold THEN "Low" ELSE "OK"

\* ProductAdmin.inventory_status
inventory_status(product) ==
    IF product.inventory < StatusThreshold THEN "Low" ELSE "OK"

ERROR == 40

\* clear_inventory reporting the rows whose inventory changed
clear_inventory_changed(t, quaryset) ==
    LET u == update_inventory(t, quaryset, 0)
    IN  [table |-> u.table,
         msgs  |-> <<[level |-> ERROR,
                      count |-> Cardinality({p \in quaryset :
                                                t[p].inventory # 0})]>>]

\* clear_inventory deleting the selected rows
clear_inventory_delete(t, quaryset) ==
    [table |-> [p \in DOMAIN t \ quaryset |-> t[p]],
     msgs  |-> <<[level |-> ERROR, count |-> Cardinality(quaryset)]>>]

\* ProductAdmin.clear_inventory: the new table and the messages emitted
clear_inventory(t, quaryset) ==
    LET u == update_inventory(t, quaryset, 0)
    IN  [table |-> u.table,
         msgs  |-> <<[level |-> ERROR, count |-> u.rows]>>]

----------------------------------------------------------------------------
(* Query strings: str(), urlencode() and the change list's reading of them *)

Digit == <<"0", "1", "2", "3", "4", "5", "6", "7", "8", "9">>

\* str(n) of a non-negative integer: its decimal digits
RECURSIVE str(_)
str(n) == IF n < 10 THEN <<Digit[n + 1]>>
          ELSE Append(str(n \div 10), Digit[(n % 10) + 1])

DigitValue(d) == (CHOOSE i \in 1..10 : Digit[i] = d) - 1

\* int(s) of a sequence of decimal digits
RECURSIVE int(_)
int(s) == IF Len(s) = 1 THEN DigitValue(s[1])
          ELSE 10 * int(SubSeq(s, 1, Len(s) - 1)) + DigitValue(s[Len(s)])

\* reverse(name) + '?' + urlencode({key: value})
url_with_query(name, key, value) ==
    [path |-> name, key |-> key, value |-> value]

----------------------------------------------------------------------------
(* Count annotations *)

\* LEFT OUTER JOIN of the rows `left` with the rows of t whose foreign key
\* `fk` points at them; `right` is {} where SQL has NULL
left_outer_join(left, t, fk) ==
    {[left |-> l, right |-> {r}] : <<l, r>> \in
          {x \in left \X DOMAIN t : t[x[2]][fk] = x[1]}}
    \cup {[left |-> l, right |-> {}] :
          l \in {y \in left : \A r \in DOMAIN t : t[r][fk] # y}}

\* COUNT(*) in place of COUNT(right.id): the NULL row is counted
annotate_count_star(left, t, fk) ==
    LET joined == left_outer_join(left, t, fk)
    IN  [l \in left |-> Cardinality({j \in joined : j.left = l})]

\* annotate(n=Count(relation)): COUNT(right.id) ... GROUP BY left.id, which
\* does not count NULL
annotate_count(left, t, fk) ==
    LET joined == left_outer_join(left, t, fk)
    IN  [l \in left |->
            Cardinality({j \in joined : j.left = l /\ j.right # {}})]

\* CollectionAdmin.get_queryset
CollectionAdmin_get_queryset(t) ==
    annotate_count(CollectionIds, t, "collection")

\* products_count with the count in the query string in place of the id
CollectionAdmin_products_count_swapped(id, annotated) ==
    [href |-> url_with_query("admin:store_product_changelist",
                             "collection_id", str(annotated[id])),
     text |-> annotated[id]]

\* CollectionAdmin.products_count: the link and its text
CollectionAdmin_products_count(id, annotated) ==
    [href |-> url_with_query("admin:store_product_changelist",
                             "collection_id", str(id)),
     text |-> annotated[id]]

\* CustomerAdmin.get_queryset
CustomerAdmin_get_queryset(t) ==
    annotate_count(CustomerIds, t, "customer")

\* CustomerAdmin.orders_count: the link and its text
CustomerAdmin_orders_count(id, annotated) ==
    [href |-> url_with_query("admin:store_order_changelist",
                             "customer_id", str(id)),
     text |-> annotated[id]]

\* The change list a link leads to: the rows of the list named by the path,
\* filtered by the lookup of the query string
changelist_of(url, prods, ords) ==
    LET t == IF url.path = "admin:store_product_changelist" THEN prods ELSE ords
        fk == IF url.key = "collection_id" THEN "collection" ELSE "customer"
    IN  {pk \in DOMAIN t : t[pk][fk] = int(url.value)}

----------------------------------------------------------------------------
(* OrderItemInline: the inline formset of an order's items.  An order row  *)
(* carries the number of OrderItem rows that point at it.                  *)

min_num == 1
max_num == 10
extra == 0
\* OrderItemInline sets neither option, and the formset factory's default
\* for both is False
validate_min == FALSE
validate_max == FALSE
\* the formset factory's default absolute_max is max_num + 1000
absolute_max == max_num + 1000

\* The number of forms the page shows for an order with `initial` items
total_form_count(initial) ==
    LET total == (IF initial > min_num THEN initial ELSE min_num) + extra
    IN  IF initial > max_num THEN initial
        ELSE IF total > max_num THEN max_num ELSE total

\* The number of new forms (those after the `initial` ones, of `new`
\* submitted) that may not be left empty: a new form may be empty unless it
\* is one of the first min_num forms
required_new(initial, new) ==
    LET upto == IF initial + new < min_num THEN initial + new ELSE min_num
    IN  IF upto > initial THEN upto - initial ELSE 0

\* Formset validation of a submission: `deleted` of the `initial` forms are
\* marked for deletion, `new` forms are added, of which `req` of the required
\* and `opt` of the others are filled in
formset_is_valid(initial, deleted, new, req, opt) ==
    LET total == initial + new
        empty == new - req - opt
    IN  /\ req = required_new(initial, new)
        /\ total <= absolute_max
        /\ ~(validate_max /\ total - deleted > max_num)
        /\ ~(validate_min /\ total - deleted - empty < min_num)

\* The items of the order after the formset is saved
formset_save(initial, deleted, new, req, opt) == initial - deleted + req + opt

----------------------------------------------------------------------------
(* The order_created signal *)

\* The parameters of on_order_created that are not **kwargs
handler_params == <<"self">>

\* The keyword arguments Signal.send and Signal.send_robust call every
\* receiver with: receiver(signal=self, sender=sender, **named)
receiver_call(sender, named) ==
    [k \in {"signal", "sender"} \cup DOMAIN named |->
        IF k = "signal" THEN "order_created"
        ELSE IF k = "sender" THEN sender ELSE named[k]]

\* Python's binding of a call with keyword arguments only: every parameter
\* without a default needs an argument of its name, else TypeError
missing_arguments(params, kw) ==
    {i \in 1..Len(params) : params[i] \notin DOMAIN kw}

\* on_order_created called with the keyword arguments kw: what it prints,
\* and whether the call raises
on_order_created(kw) ==
    IF missing_arguments(handler_params, kw) # {}
    THEN [raises |-> TRUE, out |-> <<>>]
    ELSE [raises |-> FALSE, out |-> <<kw["order"]>>]

----------------------------------------------------------------------------
(* Requests *)

\* The values of the inventory parameter: absent, a value the filter offers,
\* or another value typed into the address
FilterValues == {None} \cup {l[1] : l \in lookups} \cup {"Low"}

Idle == [op |-> "none"]

\* The add and change views of ProductAdmin
SaveProduct(p, row) ==
    /\ products' = save_row(products, p, row)
    /\ last' = [op |-> "save_product", pk |-> p]
    /\ UNCHANGED <<orders, fired, printed, raised>>

\* The delete view of ProductAdmin
DeleteProduct(p) ==
    /\ p \in DOMAIN products
    /\ products' = delete_row(products, p)
    /\ last' = [op |-> "delete_product", pk |-> p]
    /\ UNCHANGED <<orders, fired, printed, raised>>

\* The action clear_inventory run on the selected rows
ClearInventory(sel) ==
    /\ sel # {}
    /\ LET r == clear_inventory(products, sel)
       IN  /\ products' = r.table
           /\ last' = [op |-> "clear_inventory", sel |-> sel,
                       pre |-> products, pre_orders |-> orders,
                       msgs |-> r.msgs]
    /\ UNCHANGED <<orders, fired, printed, raised>>

\* The product change list with the inventory filter's parameter `value`,
\* over the list `qs` the other filters and the search leave
ProductChangelist(value, qs) ==
    /\ LET result == apply_list_filter(value, products, qs)
       IN  last' = [op |-> "product_changelist", value |-> value,
                    incoming |-> qs, result |-> result,
                    status |-> [p \in result |-> inventory_status(products[p])],
                    pre |-> products]
    /\ UNCHANGED <<products, orders, fired, printed, raised>>

\* The collection change list: every collection's products_count cell
CollectionChangelist ==
    /\ LET annotated == CollectionAdmin_get_queryset(products)
       IN  last' = [op |-> "collection_changelist",
                    cells |-> [c \in CollectionIds |->
                        CollectionAdmin_products_count(c, annotated)]]
    /\ UNCHANGED <<products, orders, fired, printed, raised>>

\* The customer change list: every customer's orders_count cell
CustomerChangelist ==
    /\ LET annotated == CustomerAdmin_get_queryset(orders)
       IN  last' = [op |-> "customer_changelist",
                    cells |-> [c \in CustomerIds |->
                        CustomerAdmin_orders_count(c, annotated)]]
    /\ UNCHANGED <<products, orders, fired, printed, raised>>

\* Following the link of collection c's products_count cell
FollowProductsLink(c) ==
    /\ LET cell == CollectionAdmin_products_count(
                       c, CollectionAdmin_get_queryset(products))
       IN  last' = [op |-> "products_link", pk |-> c, text |-> cell.text,
                    result |-> changelist_of(cell.href, products, orders)]
    /\ UNCHANGED <<products, orders, fired, printed, raised>>

\* Following the link of customer c's orders_count cell
FollowOrdersLink(c) ==
    /\ LET cell == CustomerAdmin_orders_count(
                       c, CustomerAdmin_get_queryset(orders))
       IN  last' = [op |-> "orders_link", pk |-> c, text |-> cell.text,
                    result |-> changelist_of(cell.href, products, orders)]
    /\ UNCHANGED <<products, orders, fired, printed, raised>>

\* The items the inline shows as initial forms: none for a new order
items_of(o) == IF o \in DOMAIN orders THEN orders[o].items ELSE 0

\* The add and change views of OrderAdmin, for order o with customer c: the
\* page shows total_form_count forms and lets the user add forms up to
\* max_num; `deleted` existing items are ticked for deletion, `new` forms
\* are submitted, of which `req` required and `opt` other ones are filled in
SaveOrder(o, c, deleted, new, req, opt) ==
    LET initial == items_of(o)
        valid == formset_is_valid(initial, deleted, new, req, opt)
    IN  /\ deleted \in 0..initial
        /\ initial + new >= total_form_count(initial)
        /\ initial + new <= (IF initial > max_num THEN initial ELSE max_num)
        /\ req \in 0..required_new(initial, new)
        /\ opt \in 0..(new - required_new(initial, new))
        /\ orders' = IF valid
                     THEN save_row(orders, o,
                              [customer |-> c,
                               items |-> formset_save(initial, deleted, new,
                                                      req, opt)])
                     ELSE orders
        /\ last' = [op |-> "save_order", pk |-> o, saved |-> valid]
        /\ UNCHANGED <<products, fired, printed, raised>>

\* The delete view of OrderAdmin
DeleteOrder(o) ==
    /\ o \in DOMAIN orders
    /\ orders' = delete_row(orders, o)
    /\ last' = [op |-> "delete_order", pk |-> o]
    /\ UNCHANGED <<products, fired, printed, raised>>

\* order_created fired for order o, by send or by send_robust
Fire(o, robust) ==
    /\ Len(fired) < MaxFirings
    /\ LET r == on_order_created(receiver_call("sender", [order |-> o]))
       IN  /\ printed' = printed \o r.out
           /\ raised' = raised \o (IF r.raises THEN <<o>> ELSE <<>>)
    /\ fired' = Append(fired, [order |-> o, robust |-> robust])
    /\ UNCHANGED <<products, orders, last>>

----------------------------------------------------------------------------
(* Specifications *)

\* The product admin, over every table of products that differ in inventory
StockRows == {r \in ProductRow : r.unit_price = 5 /\ r.collection = FirstId}

Init ==
    /\ products \in Tables(ProductIds, StockRows)
    /\ orders = EmptyTable
    /\ last = Idle
    /\ fired = <<>>
    /\ printed = <<>>
    /\ raised = <<>>

Next ==
    \/ \E p \in ProductIds, row \in StockRows : SaveProduct(p, row)
    \/ \E p \in ProductIds : DeleteProduct(p)
    \/ \E sel \in SUBSET DOMAIN products : ClearInventory(sel)
    \/ \E v \in FilterValues, qs \in SUBSET DOMAIN products :
          ProductChangelist(v, qs)

Spec == Init /\ [][Next]_vars

\* The order admin and its inline, from an empty order table
InitEmpty ==
    /\ products = EmptyTable
    /\ orders = EmptyTable
    /\ last = Idle
    /\ fired = <<>>
    /\ printed = <<>>
    /\ raised = <<>>

NextOrders ==
    \/ \E o \in OrderIds, c \in CustomerIds :
          \E deleted \in 0..items_of(o), new \in 0..max_num :
             \E req \in 0..required_new(items_of(o), new),
                opt \in 0..(new - required_new(items_of(o), new)) :
                SaveOrder(o, c, deleted, new, req, opt)
    \/ \E o \in OrderIds : DeleteOrder(o)

SpecOrders == InitEmpty /\ [][NextOrders]_vars

\* The count columns and their links, over products and orders that differ
\* in the related row they point at
CountRows == {r \in ProductRow : r.unit_price = 5 /\ r.inventory = 10}

NextCounts ==
    \/ \E p \in ProductIds, row \in CountRows : SaveProduct(p, row)
    \/ \E p \in ProductIds : DeleteProduct(p)
    \/ \E o \in OrderIds, c \in CustomerIds :
          SaveOrder(o, c, 0, IF o \in DOMAIN orders THEN 0 ELSE 1,
                    IF o \in DOMAIN orders THEN 0 ELSE 1, 0)
    \/ \E o \in OrderIds : DeleteOrder(o)
    \/ CollectionChangelist
    \/ CustomerChangelist
    \/ \E c \in CollectionIds : FollowProductsLink(c)
    \/ \E c \in CustomerIds : FollowOrdersLink(c)

SpecCounts == InitEmpty /\ [][NextCounts]_vars

\* clear_inventory over products that differ in price and collection, beside
\* the orders of any customers
ClearRows == {r \in ProductRow : r.inventory = 10}

InitClear ==
    /\ products \in Tables(ProductIds, ClearRows)
    /\ orders \in [OrderIds -> [customer : CustomerIds, items : {min_num}]]
    /\ last = Idle
    /\ fired = <<>>
    /\ printed = <<>>
    /\ raised = <<>>

NextClear == \E sel \in SUBSET DOMAIN products : ClearInventory(sel)

SpecClear == InitClear /\ [][NextClear]_vars

\* The signal
NextSignal == \E o \in OrderIds, robust \in BOOLEAN : Fire(o, robust)

SpecSignal == InitEmpty /\ [][NextSignal]_vars

----------------------------------------------------------------------------
(* Claims *)

WasClear == last.op = "clear_inventory"
WasProductList == last.op = "product_changelist"

\* C1: after clear_inventory every selected product has inventory 0 and
\* every unselected product has the inventory it had before the action, after
\* any sequence of requests.
C1_ClearInventoryFrame ==
    WasClear =>
        /\ DOMAIN products = DOMAIN last.pre
        /\ \A p \in DOMAIN products :
              IF p \in last.sel
              THEN products[p].inventory = 0
              ELSE products[p].inventory = last.pre[p].inventory

\* C1 witness: the action ran on a selection that left out a product, and
\* both a selected and an unselected product had stock
C1_Witness ==
    /\ WasClear
    /\ \E p \in last.sel : last.pre[p].inventory = 11
    /\ \E q \in DOMAIN last.pre \ last.sel : last.pre[q].inventory = 9

\* C2: with the value '<10' a product of the incoming list is in the
\* filter's result if and only if inventory_status shows 'Low' for it.
C2_FilterAgreesWithStatus ==
    (WasProductList /\ last.value = "<10") =>
        /\ \A p \in last.incoming :
              (p \in last.result) <=> (inventory_status(last.pre[p]) = "Low")
        /\ \A p \in last.result : last.status[p] = "Low"

\* C2 witness: the filtered list was asked for over products with
\* inventory 9 and 10
C2_Witness ==
    /\ WasProductList
    /\ last.value = "<10"
    /\ \E p \in last.incoming : last.pre[p].inventory = 9
    /\ \E p \in last.incoming : last.pre[p].inventory = 10

\* C4: inventory_status shows 'Low' exactly for an inventory strictly below
\* 10 and 'OK' for every other value; 9 is 'Low' and 10 is 'OK'.
C4_InventoryStatus ==
    WasProductList =>
        \A p \in DOMAIN last.status :
            /\ last.status[p] \in {"Low", "OK"}
            /\ (last.status[p] = "Low") <=> (last.pre[p].inventory < 10)

\* C4 witness: a list showed a product with inventory 9 and one with 10
C4_Witness ==
    /\ WasProductList
    /\ \E p \in DOMAIN last.status : last.pre[p].inventory = 9
    /\ \E p \in DOMAIN last.status : last.pre[p].inventory = 10

\* C5: every run of clear_inventory emits exactly one message, at error
\* level whatever the outcome, and the count in it is the number of selected
\* rows.
C5_OneErrorMessage ==
    WasClear =>
        /\ Len(last.msgs) = 1
        /\ last.msgs[1].level = ERROR
        /\ last.msgs[1].count = Cardinality(last.sel)

\* C5 witness: the action ran on two rows, one of which was at 0 already
C5_Witness ==
    /\ WasClear
    /\ Cardinality(last.sel) = 2
    /\ \E p \in last.sel : last.pre[p].inventory = 0
    /\ \E p \in last.sel : last.pre[p].inventory = 10

\* C9: the inventory filter restricts the list only for the value '<10',
\* to the incoming products with inventory below 10; for no value or another
\* value the list is the incoming list; no row is modified.
C9_FilterRestricts ==
    WasProductList =>
        /\ last.result =
              IF last.value = "<10"
              THEN {p \in last.incoming : last.pre[p].inventory < 10}
              ELSE last.incoming
        /\ products = last.pre

\* C9 witness: the list was asked for with another value over products of
\* which one has inventory 11 and one inventory 9
C9_Witness ==
    /\ WasProductList
    /\ last.value = "Low"
    /\ \E p \in last.incoming : last.pre[p].inventory = 11
    /\ \E p \in last.incoming : last.pre[p].inventory = 9

TrueCount(t, fk, id) == Cardinality({pk \in DOMAIN t : t[pk][fk] = id})

\* C3: a collection's products_count is the number of products of that
\* collection and a customer's orders_count the number of orders of that
\* customer, 0 included.
C3_CountsAreTrue ==
    /\ last.op = "collection_changelist" =>
          \A c \in CollectionIds :
              last.cells[c].text = TrueCount(products, "collection", c)
    /\ last.op = "customer_changelist" =>
          \A c \in CustomerIds :
              last.cells[c].text = TrueCount(orders, "customer", c)

\* C3 witness: the collection list was shown with a collection of no product
\* and one of two products, while a customer had an order
C3_Witness ==
    /\ last.op = "collection_changelist"
    /\ \E c \in CollectionIds : last.cells[c].text = 0
    /\ \E c \in CollectionIds : last.cells[c].text = 2
    /\ DOMAIN orders # {}

\* C8: the products_count link selects exactly the products of its
\* collection, as many as the count it shows; likewise the orders_count link
\* and the orders of its customer.
C8_LinkSelectsRelated ==
    /\ last.op = "products_link" =>
          /\ last.result =
                {p \in DOMAIN products : products[p].collection = last.pk}
          /\ Cardinality(last.result) = last.text
    /\ last.op = "orders_link" =>
          /\ last.result =
                {o \in DOMAIN orders : orders[o].customer = last.pk}
          /\ Cardinality(last.result) = last.text

\* C8 witness: the link of the collection with the two digit key was
\* followed while it had a product and another collection had one too
C8_Witness ==
    /\ last.op = "products_link"
    /\ last.pk = 10
    /\ last.text = 1
    /\ Cardinality(DOMAIN products) = 2

\* C10: clear_inventory creates and deletes no row and changes no field but
\* inventory, so the count columns are what they were, and a second run on the
\* same selection changes nothing.
C10_ClearInventoryOnlyInventory ==
    WasClear =>
        /\ DOMAIN products = DOMAIN last.pre
        /\ \A p \in DOMAIN products :
              /\ products[p].title = last.pre[p].title
              /\ products[p].unit_price = last.pre[p].unit_price
              /\ products[p].collection = last.pre[p].collection
        /\ orders = last.pre_orders
        /\ CollectionAdmin_get_queryset(products)
              = CollectionAdmin_get_queryset(last.pre)
        /\ CustomerAdmin_get_queryset(orders)
              = CustomerAdmin_get_queryset(last.pre_orders)
        /\ clear_inventory(products, last.sel).table = products

\* C10 witness: the action ran on a product with stock while a product of
\* another collection was left out and orders existed
C10_Witness ==
    /\ WasClear
    /\ \E p \in last.sel : last.pre[p].inventory = 10
    /\ DOMAIN last.pre # last.sel
    /\ \E p, q \in DOMAIN products :
          products[p].collection # products[q].collection
    /\ DOMAIN orders # {}

\* C6: every order saved through the order admin has at least 1 and at most
\* 10 order items.
C6_ItemsBounded ==
    \A o \in DOMAIN orders :
        orders[o].items >= 1 /\ orders[o].items <= 10

\* C7: the printed sequence is the sequence of the fired orders, each
\* printed once and in order, and no stored data changes.
C7_PrintsEveryFiring ==
    /\ printed = [i \in 1..Len(fired) |-> fired[i].order]
    /\ products = EmptyTable
    /\ orders = EmptyTable

====
